---- MODULE Spec2Model ----
(***************************************************************************)
(* A model of chatgpt_wrapper/backends/browser/chatgpt.py: the AsyncChatGPT *)
(* engine (ask, ask_stream, interrupt_stream, _cleanup_divs, the title and  *)
(* conversation API calls), the document it shares with the injected        *)
(* script, and the injected XMLHttpRequest's readystatechange handler.      *)
(*                                                                         *)
(* Granularity.  The engine is asyncio code: a step of the model is the     *)
(* Python code between two awaits together with the browser-side effect of  *)
(* the awaited page call, which the browser executes at one instant.  The   *)
(* handler of the injected request is one JavaScript task, hence one step.  *)
(* A yield hands the chunk to the consumer and is resumed in the same step. *)
(***************************************************************************)
EXTENDS Naturals, Sequences, FiniteSets, TLC

\* ---------------------------------------------------------------- bounds
\* Longest answer text (characters of the joined parts) the service sends.
MaxLen == 2
\* Exchanges (calls of ask / ask_stream) started in one run of Spec.
MaxExch == 2
\* Chunks one exchange yields from its polling loop.
MaxChunks == 2
\* SpecConc: exchanges started, the longest answer text, and the chunks of
\* one exchange.
ConcExch == 2
ConcLen == 0
ConcChunks == 1
\* SpecLin: the nodes of an arbitrary export, and the nodes between the
\* rootless node and the user message of a two-turn export.
MaxNodes == 3
MaxLead == 2
\* SpecRefresh: the longest timeout, in seconds, a caller gives refresh_session.
MaxTimeout == 2
\* The events of an answer whose bytes are followed one by one.
MaxFrames == 2

Callers == {1, 2}
\* Ids of the exchanges that issued an outbound call: the id names the
\* XMLHttpRequest and the stream div the injected script created.
XhrIds == 1..(MaxExch + ConcExch)

\* ------------------------------------------------------------------ text
\* A text is a sequence of characters; the service's parts hold "a"s and
\* "\n".join puts NL between them.
NL == "\n"

RECURSIVE Join(_)
\* "\n".join(parts)
Join(parts) ==
  IF parts = <<>> THEN <<>>
  ELSE IF Len(parts) = 1 THEN parts[1]
  ELSE parts[1] \o <<NL>> \o Join(Tail(parts))

\* s[n:]
DropFirst(s, n) == IF n >= Len(s) THEN <<>> ELSE SubSeq(s, n + 1, Len(s))

\* chunk = full_event_message[len(last_event_msg):] with the chunk being all of
\* it: the bug of yielding the full text instead of the suffix.
ChunkWhole(full_event_message, last_event_msg) == full_event_message

\* chunk = full_event_message[len(last_event_msg):]
Chunk(full_event_message, last_event_msg) ==
  DropFirst(full_event_message, Len(last_event_msg))

\* ------------------------------------------------------- staged payloads
\* innerHTML of the stream div: "" as created, or btoa(newEvent) for an event
\* frame JSON.parse accepted.  base64.b64decode(btoa(x)) = x for the ASCII
\* frames of the wire contract, so the slot is held as the decoded value.
Empty == [kind |-> "empty"]
\* An event {message: {id, content: {parts}}, conversation_id}.
Msg(mid, parts) == [kind |-> "msg", mid |-> mid, cid |-> 1, parts |-> parts]
\* A frame that is JSON without a "message" key, e.g. {"detail": ...}.
Err == [kind |-> "err"]

\* The text the engine would decode from a staged payload.
StagedText(content) == IF content.kind = "msg" THEN Join(content.parts) ELSE <<>>

\* The answer of the service grows along one line: parts [""], ["a"],
\* ["a", ""], ["a", "a"], ["a", "aa"], ... (joined: "", "a", "a\n", "a\na",
\* ...).  The engine reads only the length of what it has seen, so one answer
\* with a part boundary in it stands for any.
Grow(parts) ==
  IF parts = <<>> THEN << <<>> >>
  ELSE IF parts = << <<>> >> THEN << <<"a">> >>
  ELSE IF Len(parts) = 1 THEN Append(parts, <<>>)
  ELSE [parts EXCEPT ![Len(parts)] = Append(@, "a")]

RECURSIVE Extensions(_, _)
\* Every longer answer-so-far of at most cap characters after `parts`.
Extensions(parts, cap) ==
  IF Len(Join(Grow(parts))) > cap THEN {}
  ELSE {Grow(parts)} \cup Extensions(Grow(parts), cap)

\* ---------------------------------------------------------------- chunks
TextChunk(t) == [kind |-> "text", text |-> t]
\* "Your ChatGPT session is not usable. ..."
Unusable == [kind |-> "unusable", text |-> <<>>]
\* "Failed to read response from ChatGPT. ..."
FailedRead == [kind |-> "failed", text |-> <<>>]
\* "\nGeneration stopped\n"
Stopped == [kind |-> "stopped", text |-> <<>>]

RECURSIVE ConcatText(_)
\* The concatenation of the text deltas of a yielded sequence.
ConcatText(chunks) ==
  IF chunks = <<>> THEN <<>>
  ELSE (IF chunks[1].kind = "text" THEN chunks[1].text ELSE <<>>)
         \o ConcatText(Tail(chunks))

Last(s) == s[Len(s)]

VARIABLES
  \* AsyncChatGPT fields
  session,                 \* "none" (None) | "no_token" | "token"
  streaming,               \* self.streaming
  lock,                    \* self.lock: 0 free, else the caller holding it
  conversation_id,         \* 0 is None, else the service's conversation id
  parent_message_id,       \* 0 is the uuid seed, else a message id of the service
  conversation_title_set,  \* self.conversation_title_set
  \* the callers' coroutine frames
  frame,
  \* the document and the injected requests
  streamDivs,              \* the stream divs in the document, in document order
  slot,                    \* innerHTML of the stream div each script created
  eofDivs,                 \* the eof divs in the document, by creating request
  intDivs,                 \* the interrupt divs in the document, by creating exchange
  xhr,                     \* each request: "unsent" | "loading" | "done" | "aborted"
  \* bookkeeping
  nexch,                   \* exchanges that issued an outbound call so far
  quota,                   \* what this run may do: [exch, len, chunks, entries]
  titled,                  \* a title request of this conversation has succeeded
  \* the page and a call of refresh_session
  page,                    \* where self.page is: "chat" | "session"
  refresh,                 \* the frame of refresh_session
  \* a call of conversation_data_to_messages
  lin,                     \* [pc, export, result]
  \* one request's response on the wire and its handler's state
  wire                     \* [bodies, received, seenBytes, staged, readyState]

vars == <<session, streaming, lock, conversation_id, parent_message_id,
          conversation_title_set, frame, streamDivs, slot, eofDivs, intDivs,
          xhr, nexch, quota, titled, page, refresh, lin, wire>>

\* The state of the exchanges apart from self.session.
exchangeVars == <<streaming, lock, conversation_id, parent_message_id,
                  conversation_title_set, frame, streamDivs, slot, eofDivs,
                  intDivs, xhr, nexch, quota, titled>>

\* What the steps of an exchange and of the conversation API leave alone.
offVars == <<quota, page, refresh, lin, wire>>

engineVars == <<session, streaming, lock, conversation_id, parent_message_id,
                conversation_title_set>>
browserVars == <<streamDivs, slot, eofDivs, intDivs, xhr>>

\* The local `event` of ask_stream before line 458 has assigned it.
Unbound == [kind |-> "unbound"]

\* A coroutine frame before a call: the locals of ask_stream and what the
\* caller has received from it.
IdleFrame ==
  [pc |-> "idle", via |-> "none", xid |-> 0,
   last_event_msg |-> <<>>, eof_datas |-> FALSE, conversation_datas |-> 0,
   timed_out |-> FALSE, out |-> <<>>, exit |-> "none",
   title_req |-> "none", staged |-> <<>>,
   result |-> "none",
   request |-> [conversation_id |-> 0, parent_message_id |-> 0],
   event |-> Unbound]

AbsentFrame == [IdleFrame EXCEPT !.pc = "absent"]

\* refresh_session not called: its locals, the seconds slept in the wait of
\* lines 149-150, and whether the page shows the interstitial.
IdleRefresh == [pc |-> "idle", timeout |-> 0, slept |-> 0, standby |-> FALSE,
                url |-> "none"]

\* No request whose bytes are followed one by one.
IdleWire == [bodies |-> <<>>, received |-> 0, seenBytes |-> 0, staged |-> <<>>,
             readyState |-> 0]

\* _start_browser (105) has put the page on the chat landing page; nobody is
\* in refresh_session.
InitOff ==
  /\ page = "chat"
  /\ refresh = IdleRefresh
  /\ lin = [pc |-> "idle", export |-> <<>>, result |-> [kind |-> "none"]]
  /\ wire = IdleWire

\* __init__ (lines 40-48) and create (54-91): no session, not streaming, a
\* fresh conversation.
InitEngine ==
  /\ session = "none"
  /\ streaming = FALSE
  /\ lock = 0
  /\ conversation_id = 0
  /\ parent_message_id = 0
  /\ conversation_title_set = FALSE
  /\ streamDivs = <<>>
  /\ slot = [e \in XhrIds |-> Empty]
  /\ eofDivs = <<>>
  /\ intDivs = <<>>
  /\ xhr = [e \in XhrIds |-> "unsent"]
  /\ nexch = 0
  /\ titled = FALSE

\* One caller, one exchange after another through ask, which consumes every
\* chunk as it is yielded.
Init ==
  /\ InitEngine
  /\ frame = [c \in Callers |-> IF c = 1 THEN IdleFrame ELSE AbsentFrame]
  /\ quota = [exch |-> MaxExch, len |-> MaxLen, chunks |-> MaxChunks,
               entries |-> {"ask"}]
  /\ InitOff

\* Two callers on one engine instance, through ask or ask_stream, and no
\* calls of the conversation API.
InitConc ==
  /\ InitEngine
  /\ frame = [c \in Callers |-> IdleFrame]
  /\ quota = [exch |-> ConcExch, len |-> ConcLen, chunks |-> ConcChunks,
               entries |-> {"ask", "ask_stream"}]
  /\ InitOff

\* The frame of caller c with some locals changed.
Set(c, f) == frame' = [frame EXCEPT ![c] = f]

InLoop(c) == frame[c].pc \in {"loop", "query", "read"}

\* A poller holds a handle to the stream div of request e (conversation_datas[0]
\* between the query of line 447 and the read of line 456).
Held(e) == \E c \in Callers : frame[c].pc = "read" /\ frame[c].conversation_datas = e

InDocument(e) == \E i \in 1..Len(streamDivs) : streamDivs[i] = e

\* ------------------------------------------------------- refresh_session
\* What refresh_session leaves in self.session: the parsed payload with or
\* without an accessToken, or None still when no JSON was found or decoded.
\* It is awaited only when self.session is None.
Refreshed == IF session = "none" THEN {"token", "no_token", "none"} ELSE {session}

\* The check of line 353 dropped: every session counts as usable.
HasAccessTokenAlways(s) == TRUE

\* "accessToken" in self.session
HasAccessToken(s) == s = "token"

\* ------------------------------------------------------------ ask_stream
\* ask (async with self.lock) or ask_stream called: lines 347-359.  With no
\* session the refresh runs first; None after it makes line 353 raise
\* TypeError; a session without accessToken yields the explanation and
\* returns.
Enter(c, via) ==
  /\ frame[c].pc = "idle"
  /\ nexch < quota.exch
  /\ via \in quota.entries
  /\ via = "ask" => lock = 0
  /\ \E o \in Refreshed :
       /\ session' = o
       /\ Set(c, [IdleFrame EXCEPT
                    !.via = via, !.xid = nexch + 1,
                    !.pc = IF o = "none" THEN "raised"
                           ELSE IF HasAccessToken(o) THEN "send" ELSE "done",
                    !.exit = IF o = "none" THEN "RAISED"
                             ELSE IF HasAccessToken(o) THEN "none" ELSE "AUTH",
                    !.out = IF o # "none" /\ ~HasAccessToken(o)
                            THEN <<Unusable>> ELSE <<>>])
  /\ lock' = IF via = "ask" THEN c ELSE lock
  /\ nexch' = nexch + 1
  /\ UNCHANGED <<streaming, conversation_id, parent_message_id,
                 conversation_title_set, browserVars, offVars, titled>>

\* Lines 361-439: the request is built, self.streaming set, and the script
\* evaluated: it appends the stream div and sends the request.
Send(c) ==
  /\ frame[c].pc = "send"
  /\ streaming' = TRUE
  /\ streamDivs' = Append(streamDivs, frame[c].xid)
  /\ slot' = [slot EXCEPT ![frame[c].xid] = Empty]
  /\ xhr' = [xhr EXCEPT ![frame[c].xid] = "loading"]
  /\ Set(c, [frame[c] EXCEPT
               !.pc = "loop", !.last_event_msg = <<>>, !.timed_out = FALSE,
               !.request = [conversation_id |-> conversation_id,
                            parent_message_id |-> parent_message_id]])
  /\ UNCHANGED <<session, lock, conversation_id, parent_message_id,
                 conversation_title_set, eofDivs, intDivs, nexch, offVars,
                 titled>>

\* The frame when the loop is left: the loop's locals are dead from here on.
Left(f, exit) ==
  [f EXCEPT !.pc = "post", !.exit = exit, !.eof_datas = FALSE,
            !.timed_out = FALSE, !.conversation_datas = 0]

\* Lines 441-444 with interrupt_stream (497-506): self.streaming was cleared,
\* the interrupt div is appended and the loop left.
ObserveInterrupt(c) ==
  /\ frame[c].pc = "loop"
  /\ ~streaming
  /\ intDivs' = Append(intDivs, frame[c].xid)
  /\ Set(c, [Left(frame[c], "INTERRUPTED") EXCEPT
               !.staged = IF streamDivs = <<>> THEN <<>>
                          ELSE StagedText(slot[Head(streamDivs)])])
  /\ UNCHANGED <<engineVars, streamDivs, slot, eofDivs, xhr, nexch,
                 offVars, titled>>

\* Lines 441, 445: still streaming, the eof divs are queried.
PollEof(c) ==
  /\ frame[c].pc = "loop"
  /\ streaming
  /\ Len(frame[c].out) < quota.chunks
  /\ Set(c, [frame[c] EXCEPT !.pc = "query", !.eof_datas = (eofDivs # <<>>)])
  /\ UNCHANGED <<engineVars, browserVars, nexch, offVars, titled>>

\* Lines 447-451: the stream divs are queried; with none the loop continues
\* at once.
QueryStream(c) ==
  /\ frame[c].pc = "query"
  /\ Set(c, IF streamDivs = <<>>
            THEN [frame[c] EXCEPT !.pc = "loop"]
            ELSE [frame[c] EXCEPT !.pc = "read",
                                  !.conversation_datas = Head(streamDivs)])
  /\ UNCHANGED <<engineVars, browserVars, nexch, offVars, titled>>

\* Line 481: len(eof_datas) > 0 or (time.time() - start_time > self.timeout
\* and full_event_message is None)
LeaveLoop(eof_seen, timed_out, none_staged) ==
  eof_seen \/ (timed_out /\ none_staged)

\* Lines 459-461 without the two assignments: the ids stay as they are.
EchoedIdsDropped(event, pid, cid) == <<pid, cid>>

\* Lines 459-461: self.parent_message_id and self.conversation_id after an
\* event was read: the ids it carries, or the ones held when it carries none.
EchoedIds(event, pid, cid) ==
  IF event.kind = "msg" THEN <<event.mid, event.cid>> ELSE <<pid, cid>>

\* Lines 453-484: the first stream div's innerHTML is read and decoded, the
\* ids taken from the event, the suffix yielded, and the loop left on eof or
\* timeout; an event that does not decode as expected yields the failure
\* text and leaves the loop.  The text of a removed div whose last handle
\* this was is forgotten.
ReadSlot(c) ==
  /\ frame[c].pc = "read"
  /\ LET f == frame[c]
         content == slot[f.conversation_datas]
         full == StagedText(content)
         leave == LeaveLoop(f.eof_datas, f.timed_out, content.kind # "msg")
         yielded == [f EXCEPT !.out = Append(@, TextChunk(Chunk(full, f.last_event_msg))),
                              !.last_event_msg = full,
                              !.conversation_datas = 0, !.pc = "loop"]
     IN  /\ Set(c, CASE content.kind = "err" ->
                          Left([f EXCEPT !.out = Append(@, FailedRead),
                                         !.event = content], "TRANSPORT_ERROR")
                     [] content.kind = "msg" ->
                          IF leave THEN Left([yielded EXCEPT !.event = content], "DONE")
                          ELSE [yielded EXCEPT !.event = content]
                     [] OTHER ->
                          IF leave
                          THEN Left(f, IF f.eof_datas THEN "DONE" ELSE "TIMEOUT")
                          ELSE [f EXCEPT !.conversation_datas = 0, !.pc = "loop"])
         /\ parent_message_id' =
              EchoedIds(content, parent_message_id, conversation_id)[1]
         /\ conversation_id' =
              EchoedIds(content, parent_message_id, conversation_id)[2]
         /\ slot' = IF InDocument(f.conversation_datas)
                       \/ \E d \in Callers \ {c} : frame[d].pc = "read"
                             /\ frame[d].conversation_datas = f.conversation_datas
                    THEN slot ELSE [slot EXCEPT ![f.conversation_datas] = Empty]
  /\ UNCHANGED <<session, streaming, lock, conversation_title_set,
                 streamDivs, eofDivs, intDivs, xhr, nexch, offVars, titled>>

\* Lines 486-490: the marker is yielded when self.streaming is cleared, and
\* the flag reset.  Nothing reads the request and the event after the loop.
Post(c) ==
  /\ frame[c].pc = "post"
  /\ Set(c, [frame[c] EXCEPT !.pc = "cleanup_stream", !.staged = <<>>,
               !.request = IdleFrame.request, !.event = Unbound,
               !.out = IF streaming THEN @ ELSE Append(@, Stopped)])
  /\ streaming' = FALSE
  /\ UNCHANGED <<session, lock, conversation_id, parent_message_id,
                 conversation_title_set, browserVars, nexch, offVars, titled>>

\* _cleanup_divs, line 176: getElementById(stream_div_id).remove() removes the
\* first stream div; with none in the document the script throws.  The text
\* of a removed div that no poller holds a handle to is forgotten.
CleanupStream(c) ==
  /\ frame[c].pc = "cleanup_stream"
  /\ streamDivs' = IF streamDivs = <<>> THEN streamDivs ELSE Tail(streamDivs)
  /\ slot' = IF streamDivs # <<>> /\ ~Held(Head(streamDivs))
             THEN [slot EXCEPT ![Head(streamDivs)] = Empty] ELSE slot
  /\ Set(c, IF streamDivs = <<>>
            THEN [frame[c] EXCEPT !.pc = "raised"]
            ELSE [frame[c] EXCEPT !.pc = "cleanup_eof"])
  /\ UNCHANGED <<engineVars, eofDivs, intDivs, xhr, nexch, offVars, titled>>

\* _cleanup_divs, lines 177-185: the first eof div is removed when there is
\* one.
CleanupEof(c) ==
  /\ frame[c].pc = "cleanup_eof"
  /\ eofDivs' = IF eofDivs = <<>> THEN eofDivs ELSE Tail(eofDivs)
  /\ Set(c, [frame[c] EXCEPT !.pc = "title"])
  /\ UNCHANGED <<engineVars, streamDivs, slot, intDivs, xhr, nexch,
                 offVars, titled>>

\* What an HTTP call of the API layer comes back with: response.ok with a JSON
\* body, response.ok with a body json() cannot decode, or a failure status.
HttpOutcomes == {"ok", "ok_nonjson", "fail"}

\* _gen_title, line 243: a request is made unless there is no conversation id
\* or the title is already set.
GenTitleWanted(cid, title_set) == ~(cid = 0 \/ (cid # 0 /\ title_set))

\* Lines 492-495, where the title argument is first read: set_title(title)
\* for a caller-supplied title (301-313, no check of conversation_title_set,
\* its result dropped), else _gen_title (242-260).  _process_api_response
\* raises on an undecodable body; _gen_title catches that, set_title does not.
FinishTitle(c, title, http) ==
  /\ frame[c].pc = "title"
  /\ IF title
     THEN /\ Set(c, [frame[c] EXCEPT
                       !.pc = IF http = "ok_nonjson" THEN "raised" ELSE "done",
                       !.title_req = "set_title"])
          /\ titled' = (titled \/ (http = "ok" /\ conversation_id # 0))
          /\ UNCHANGED conversation_title_set
     ELSE IF GenTitleWanted(conversation_id, conversation_title_set)
     THEN /\ Set(c, [frame[c] EXCEPT !.pc = "done", !.title_req = "gen_title"])
          /\ titled' = (titled \/ http = "ok")
          /\ conversation_title_set' = (conversation_title_set \/ http = "ok")
     ELSE /\ http = "ok"
          /\ Set(c, [frame[c] EXCEPT !.pc = "done"])
          /\ UNCHANGED <<titled, conversation_title_set>>
  /\ UNCHANGED <<session, streaming, lock, conversation_id, parent_message_id,
                 browserVars, nexch, offVars>>

\* ask_stream is exhausted or has raised: ask (518-523) builds its result and
\* leaves the lock, a direct caller just goes on.
Return(c) ==
  /\ frame[c].pc \in {"done", "raised", "api_done"}
  /\ lock' = IF frame[c].via = "ask" THEN 0 ELSE lock
  /\ Set(c, IdleFrame)
  /\ UNCHANGED <<session, streaming, conversation_id, parent_message_id,
                 conversation_title_set, browserVars, nexch, offVars, titled>>

\* The interrupt request: the flag ask_stream polls is cleared.
RequestInterrupt ==
  /\ streaming
  /\ streaming' = FALSE
  /\ UNCHANGED <<session, lock, conversation_id, parent_message_id,
                 conversation_title_set, frame, browserVars, nexch, offVars,
                 titled>>

\* time.time() passes start_time + self.timeout for an exchange in its
\* polling loop: from then on time.time() - start_time > self.timeout.
TimeoutElapses(c) ==
  /\ InLoop(c)
  /\ ~frame[c].timed_out
  /\ Set(c, [frame[c] EXCEPT !.timed_out = TRUE])
  /\ UNCHANGED <<engineVars, browserVars, nexch, offVars, titled>>

\* ------------------------------------------- the injected request's handler
\* newEvent undefined: no complete frame in the new data, or JSON.parse threw.
NoEvent == [kind |-> "undefined"]

\* xhr.onreadystatechange (lines 386-423) of request e at readyState 3 or 4
\* with the frame it extracted: a decoded frame is staged in the script's own
\* stream div; at readyState 4 with no interrupt div an eof div is appended;
\* with an interrupt div the request is aborted and that div removed.
\* xhr.abort() re-enters the handler at readyState 4 with the interrupt div
\* still present, which stages nothing and appends no eof div; on a request
\* that is DONE it does nothing.
OnReadyStateChange(e, readyState, newEvent) ==
  LET interrupted == intDivs # <<>>
  IN  /\ slot' = IF newEvent # NoEvent THEN [slot EXCEPT ![e] = newEvent] ELSE slot
      /\ eofDivs' = IF readyState = 4 /\ ~interrupted
                    THEN Append(eofDivs, e) ELSE eofDivs
      /\ intDivs' = IF interrupted THEN Tail(intDivs) ELSE intDivs
      /\ xhr' = [xhr EXCEPT ![e] = IF readyState = 4 THEN "done"
                                   ELSE IF interrupted THEN "aborted"
                                   ELSE "loading"]
      /\ UNCHANGED streamDivs

\* The stream div of request e can still be read: it is in the document, or
\* a poller holds a handle to it.
Readable(e) == InDocument(e) \/ Held(e)

\* The parts of the answer staged for request e.
StagedParts(e) == IF slot[e].kind = "msg" THEN slot[e].parts ELSE <<>>

\* A readystatechange at readyState 2 or 3: no new frame that decodes (none
\* yet, or JSON.parse threw on a partial one), or the newest frame decodes and
\* is staged: a longer answer-so-far, or an error object.  Frames for a div
\* that nothing can read any more are not told apart.
XhrProgress(e) ==
  /\ xhr[e] = "loading"
  /\ \/ OnReadyStateChange(e, 3, NoEvent)
     \/ /\ Readable(e)
        /\ slot[e].kind # "err"
        /\ \E p \in Extensions(StagedParts(e), quota.len) :
             OnReadyStateChange(e, 3, Msg(e, p))
     \/ /\ Readable(e)
        /\ slot[e].kind # "err"
        /\ OnReadyStateChange(e, 3, Err)
  /\ UNCHANGED <<engineVars, frame, nexch, offVars, titled>>

\* The request finishes: readyState 4, the last data frame staged when it is
\* new and decodes.
XhrFinish(e) ==
  /\ xhr[e] = "loading"
  /\ \/ OnReadyStateChange(e, 4, NoEvent)
     \/ /\ Readable(e)
        /\ slot[e].kind # "err"
        /\ \E p \in Extensions(StagedParts(e), quota.len) :
             OnReadyStateChange(e, 4, Msg(e, p))
  /\ UNCHANGED <<engineVars, frame, nexch, offVars, titled>>

\* ------------------------------------------------- conversation API layer
ApiOps == {"delete_conversation", "set_title", "get_history", "get_conversation"}

\* The result of a conversation API call (lines 285-345) on session s with
\* conversation id cid: delete_conversation returns nothing without an id
\* (288-289), get_conversation falls off its end without one (338);
\* _api_request_build_headers (189) raises on a session that is None or has
\* no accessToken; _process_api_response (198-200) raises on an undecodable
\* body, its except clause naming json.JSONDecodeError on the local json;
\* otherwise the triple of the call or of _handle_error.
ApiResult(op, given, s, cid, http) ==
  IF op = "delete_conversation" /\ ~given /\ cid = 0 THEN "none"
  ELSE IF op = "get_conversation" /\ ~given /\ cid = 0 THEN "none"
  ELSE IF s # "token" THEN "raised"
  ELSE IF http = "ok_nonjson" THEN "raised"
  ELSE IF http = "ok" THEN "triple_ok"
  ELSE "triple_fail"

\* A caller's call of one of the four operations, with or without an id of
\* its own: the session is refreshed when absent, then the call made.
ApiCall(c, op, given, http) ==
  /\ frame[c].pc = "idle"
  /\ \E o \in Refreshed :
       /\ session' = o
       /\ Set(c, [IdleFrame EXCEPT
                    !.pc = "api_done", !.via = op,
                    !.result = ApiResult(op, given, o, conversation_id, http)])
       /\ titled' = (titled \/ (op = "set_title" /\ ~given /\ conversation_id # 0
                                 /\ ApiResult(op, given, o, conversation_id, http)
                                      = "triple_ok"))
  /\ UNCHANGED <<streaming, lock, conversation_id, parent_message_id,
                 conversation_title_set, browserVars, nexch, offVars>>

\* A caller's own refresh_session() (133-173): self.session becomes the parsed
\* payload, with or without an accessToken, or stays as it is when no JSON is
\* found or decoded.
RefreshSession(c) ==
  /\ frame[c].pc = "idle"
  /\ \E o \in {"token", "no_token", session} : session' = o
  /\ UNCHANGED <<streaming, lock, conversation_id, parent_message_id,
                 conversation_title_set, frame, browserVars, nexch, offVars,
                 titled>>

\* ------------------------------------------ refresh_session, step by step
\* The seconds the model lets the wait of lines 149-150 sleep.
MaxSleeps == MaxTimeout + 1

\* No exchanges and no API calls: the budget of SpecRefresh.
NoQuota == [exch |-> 0, len |-> 0, chunks |-> 0, entries |-> {}]

\* Lines 141-142: refresh_session(timeout) navigates the page to the session
\* endpoint, which may answer with the interstitial.
RefreshGoto(timeout, standby) ==
  /\ refresh.pc = "idle"
  /\ page' = "session"
  /\ refresh' = [IdleRefresh EXCEPT !.pc = "wait_for_url", !.timeout = timeout,
                                    !.standby = standby]
  /\ UNCHANGED <<session, exchangeVars, lin, wire>>

\* Lines 143-147: wait_for_url returns, or times out and _start_browser
\* navigates to the chat landing page, which may show the interstitial too.
WaitForUrl(arrived, standby) ==
  /\ refresh.pc = "wait_for_url"
  /\ IF arrived
     THEN /\ refresh' = [refresh EXCEPT !.pc = "content", !.url = "arrived"]
          /\ UNCHANGED page
     ELSE /\ refresh' = [refresh EXCEPT !.pc = "content", !.url = "timed_out",
                                        !.standby = standby]
          /\ page' = "chat"
  /\ standby = refresh.standby \/ ~arrived
  /\ UNCHANGED <<session, exchangeVars, lin, wire>>

\* The browser check passes: the page no longer shows the interstitial.
StandbyClears ==
  /\ refresh.pc = "content"
  /\ refresh.standby
  /\ refresh' = [refresh EXCEPT !.standby = FALSE]
  /\ UNCHANGED <<session, exchangeVars, lin, page, wire>>

\* Lines 149-151: while the content holds the interstitial text, sleep one
\* second and look again; no clock is consulted.  Without it the content is
\* taken.
CheckStandby ==
  /\ refresh.pc = "content"
  /\ IF refresh.standby
     THEN /\ refresh.slept < MaxSleeps
          /\ refresh' = [refresh EXCEPT !.slept = @ + 1]
     ELSE refresh' = [refresh EXCEPT !.pc = "parse"]
  /\ UNCHANGED <<session, exchangeVars, lin, page, wire>>

\* Lines 161-169: the span from the first { to the last } is parsed into
\* self.session, with or without an accessToken; with no span or one that
\* json.loads rejects the JSONDecodeError is logged and self.session kept.
ParseSession(found) ==
  /\ refresh.pc = "parse"
  /\ session' = IF found = "none" THEN session ELSE found
  /\ refresh' = [refresh EXCEPT !.pc = "restore"]
  /\ UNCHANGED <<exchangeVars, lin, page, wire>>

\* Line 173 left out: refresh_session returns where the page is.
RestoreNavigationSkipped ==
  /\ refresh.pc = "restore"
  /\ refresh' = [refresh EXCEPT !.pc = "returned"]
  /\ UNCHANGED <<session, exchangeVars, lin, page, wire>>

\* Lines 171-173: _start_browser navigates back to the chat landing page and
\* refresh_session returns.
RestoreNavigation ==
  /\ refresh.pc = "restore"
  /\ page' = "chat"
  /\ refresh' = [refresh EXCEPT !.pc = "returned"]
  /\ UNCHANGED <<session, exchangeVars, lin, wire>>

\* The caller goes on after refresh_session returned.
RefreshDone ==
  /\ refresh.pc = "returned"
  /\ refresh' = IdleRefresh
  /\ UNCHANGED <<session, exchangeVars, lin, page, wire>>

\* -------------------------------------------- conversation_data_to_messages
\* conversation_data['mapping'].values(): the nodes in the order of the
\* mapping, the node at position i having id i.  A node has a 'parent' key or
\* not, its value an id or None (0); a 'children' key or not, its value a
\* list of ids; and a message: None ("null") or one with content and the
\* author role given.  The function reads 'children' of a node without
\* 'parent' only and the message of a node with 'parent' only, so the fields
\* it never reads hold one value.
Roles == {"system", "user", "assistant"}

Rootless(n) ==
  {[has_parent |-> FALSE, parent |-> 0, has_children |-> TRUE, children |-> ch,
    message |-> "null"] : ch \in {<<>>} \cup {<<j>> : j \in 1..n}}
  \cup {[has_parent |-> FALSE, parent |-> 0, has_children |-> FALSE,
          children |-> <<>>, message |-> "null"]}

Parented(n) ==
  {[has_parent |-> TRUE, parent |-> p, has_children |-> FALSE,
    children |-> <<>>, message |-> m] :
     p \in 0..n, m \in Roles \cup {"null"}}

\* The exports of up to n nodes whose parents and children are ids up to n.
Exports(n) ==
  UNION {[1..k -> Rootless(n) \cup Parented(n)] : k \in 0..n}

\* The export of a two-turn conversation as the service sends it: a chain
\* from the rootless node over `leads` (nodes with no message or the system
\* message) to the user message and the assistant's reply; ids[i] is the id
\* of the i-th node of the chain.
TwoTurnExport(ids, leads) ==
  LET n == Len(leads) + 3
      at(j) == CHOOSE i \in 1..n : ids[i] = j
      node(i) ==
        IF i = 1
        THEN [has_parent |-> FALSE, parent |-> 0, has_children |-> TRUE,
              children |-> <<ids[2]>>, message |-> "null"]
        ELSE [has_parent |-> TRUE, parent |-> ids[i - 1],
              has_children |-> FALSE, children |-> <<>>,
              message |-> IF i = n THEN "assistant"
                          ELSE IF i = n - 1 THEN "user" ELSE leads[i - 1]]
  IN  [j \in 1..n |-> node(at(j))]

TwoTurnExports(lead) ==
  {TwoTurnExport(ids, leads) :
     ids \in {p \in [1..(lead + 3) -> 1..(lead + 3)] :
               \A i, j \in 1..(lead + 3) : p[i] = p[j] => i = j},
     leads \in [1..lead -> {"null", "system"}]}

\* [item for item in mapping_dict if 'parent' not in item], as positions
parent_nodes(export) == {i \in DOMAIN export : ~export[i].has_parent}

\* [item for item in mapping_dict if 'parent' in item], as positions
mapping_dict(export) == {i \in DOMAIN export : export[i].has_parent}

\* Lines 267-270 taking the first rootless node's first child whatever the
\* number of rootless nodes.
parent_id_first_root(export) ==
  LET roots == parent_nodes(export)
      root == CHOOSE i \in roots : \A j \in roots : i <= j
  IN  IF roots # {} /\ export[root].has_children
      THEN IF export[root].children = <<>>
           THEN [raised |-> TRUE, id |-> 0]
           ELSE [raised |-> FALSE, id |-> export[root].children[1]]
      ELSE [raised |-> FALSE, id |-> 0]

\* Lines 267-270: the first child of the only rootless node when it has a
\* 'children' key, where [0] of an empty list raises IndexError; else None.
parent_id(export) ==
  LET roots == parent_nodes(export)
      root == CHOOSE i \in roots : TRUE
  IN  IF Cardinality(roots) = 1 /\ export[root].has_children
      THEN IF export[root].children = <<>>
           THEN [raised |-> TRUE, id |-> 0]
           ELSE [raised |-> FALSE, id |-> export[root].children[1]]
      ELSE [raised |-> FALSE, id |-> 0]

\* Line 272: next((item for item in mapping_dict if item['parent'] ==
\* parent_id), None), as a position, 0 for None.
current_item(export, cursor) ==
  LET found == {i \in mapping_dict(export) : export[i].parent = cursor}
  IN  IF found = {} THEN 0 ELSE CHOOSE i \in found : \A j \in found : i <= j

\* Line 276 without the test of the role.
appended_any_role(message) == message # "null"

\* Line 276: the message is appended when it is not None and its author's
\* role is not 'system'.
appended(message) == message # "null" /\ message # "system"

RECURSIVE walk_reversed(_, _, _)
\* Lines 271-283 with each message put in front of the list.
walk_reversed(export, cursor, fuel) ==
  LET item == current_item(export, cursor)
  IN  IF item = 0 THEN [kind |-> "returned", messages |-> <<>>]
      ELSE IF fuel = 0 THEN [kind |-> "diverges", messages |-> <<>>]
      ELSE LET rest == walk_reversed(export, item, fuel - 1)
               here == IF appended(export[item].message)
                       THEN <<[id |-> item, role |-> export[item].message]>>
                       ELSE <<>>
           IN  [rest EXCEPT !.messages = @ \o here]

RECURSIVE walk(_, _, _)
\* Lines 271-283: the loop from a cursor, with the messages appended from
\* there on.  The next item depends on the cursor alone, so a loop that has
\* taken more steps than there are items never ends; `fuel` counts them.
walk(export, cursor, fuel) ==
  LET item == current_item(export, cursor)
  IN  IF item = 0 THEN [kind |-> "returned", messages |-> <<>>]
      ELSE IF fuel = 0 THEN [kind |-> "diverges", messages |-> <<>>]
      ELSE LET rest == walk(export, item, fuel - 1)
               here == IF appended(export[item].message)
                       THEN <<[id |-> item, role |-> export[item].message]>>
                       ELSE <<>>
           IN  [rest EXCEPT !.messages = here \o @]

\* conversation_data_to_messages (262-283): the list returned, or the
\* IndexError raised, or no return.
conversation_data_to_messages(export) ==
  LET start == parent_id(export)
  IN  IF start.raised THEN [kind |-> "raised", messages |-> <<>>]
      ELSE LET r == walk(export, start.id, Len(export))
           IN  IF r.kind = "diverges" THEN [r EXCEPT !.messages = <<>>] ELSE r

\* A caller converts the export it holds.
Convert ==
  /\ lin.pc = "given"
  /\ lin' = [lin EXCEPT !.pc = "done",
                        !.result = conversation_data_to_messages(lin.export)]
  /\ UNCHANGED <<session, exchangeVars, page, refresh, wire>>

\* ----------------------------------------------------------- specifications

\* ------------------------------- the handler on the bytes of one response
\* The longest response: MaxFrames frames of 11 characters and [DONE] of 14.
MaxWire == 11 * MaxFrames + 14

\* The frames of an event stream, character by character: "data: ", the JSON
\* body, and the blank line that ends a frame.
DataPrefix == <<"d", "a", "t", "a", ":", " ">>
BlankLine == <<"\n", "\n">>
Digits == <<"1", "2", "3", "4", "5", "6", "7", "8", "9">>

\* The body of the i-th event of an answer: a JSON object, here {i}.
Body(i) == <<"{", Digits[i], "}">>
\* [DONE]
DoneBody == <<"[", "D", "O", "N", "E", "]">>

RECURSIVE Wire(_)
\* The response text of a stream of frames with the given bodies.
Wire(bodies) ==
  IF bodies = <<>> THEN <<>>
  ELSE DataPrefix \o Head(bodies) \o BlankLine \o Wire(Tail(bodies))

\* What the service sends for an answer of n events: its frames and [DONE].
Bodies(n) == [i \in 1..(n + 1) |-> IF i <= n THEN Body(i) ELSE DoneBody]

\* String.prototype.substr(start) and substring(start)
substr(str, start) == SubSeq(str, start + 1, Len(str))

RECURSIVE split(_, _)
\* newData.split(/\n\n/): the pieces between the blank lines, with `piece`
\* the characters of the current one read so far.
split(str, piece) ==
  IF str = <<>> THEN <<piece>>
  ELSE IF Len(str) >= 2 /\ SubSeq(str, 1, 2) = BlankLine
       THEN <<piece>> \o split(SubSeq(str, 3, Len(str)), <<>>)
       ELSE split(Tail(str), Append(piece, Head(str)))

\* Array.prototype.reverse
reverse(a) == [i \in 1..Len(a) |-> a[Len(a) + 1 - i]]

\* Array.prototype.shift: the array without its first element
shift(a) == IF a = <<>> THEN a ELSE Tail(a)

\* JSON.parse(text) does not throw: of the texts these frames can be cut
\* into, only a whole body is JSON.
JSONParses(text) ==
  /\ Len(text) = 3
  /\ text[1] = "{" /\ text[3] = "}"
  /\ \E i \in DOMAIN Digits : text[2] = Digits[i]

\* newEvent is undefined after the try block.
undefined == <<"undefined">>

\* Lines 390-407: newEvent for the new data.
newEvent(newData) ==
  LET newEvents == shift(reverse(split(newData, <<>>)))
      rest == IF newEvents # <<>> /\ newEvents[1] = DataPrefix \o DoneBody
              THEN shift(newEvents) ELSE newEvents
  IN  IF rest = <<>> THEN undefined
      ELSE IF JSONParses(substr(rest[1], 6)) THEN substr(rest[1], 6)
      ELSE undefined

\* A readystatechange with k more characters of the response received, at
\* readyState 3, or at readyState 4 when the whole response is there: lines
\* 389-412.
OnBytes(k, readyState) ==
  LET responseText == SubSeq(Wire(wire.bodies), 1, wire.received + k)
      event == newEvent(substr(responseText, wire.seenBytes))
  IN  /\ wire.readyState \in {1, 3}
      /\ wire.received + k <= Len(Wire(wire.bodies))
      /\ readyState = 3 => k >= 1
      /\ readyState = 4 => wire.received + k = Len(Wire(wire.bodies))
      /\ wire' = [wire EXCEPT
                    !.received = Len(responseText),
                    !.readyState = readyState,
                    !.staged = IF event # undefined THEN event ELSE @,
                    !.seenBytes = IF event # undefined THEN Len(responseText) ELSE @]
      /\ UNCHANGED <<session, exchangeVars, page, refresh, lin>>

Next ==
  \/ \E c \in Callers, via \in {"ask", "ask_stream"} : Enter(c, via)
  \/ \E c \in Callers : Send(c)
  \/ \E c \in Callers : ObserveInterrupt(c)
  \/ \E c \in Callers : PollEof(c)
  \/ \E c \in Callers : QueryStream(c)
  \/ \E c \in Callers : ReadSlot(c)
  \/ \E c \in Callers : Post(c)
  \/ \E c \in Callers : CleanupStream(c)
  \/ \E c \in Callers : CleanupEof(c)
  \/ \E c \in Callers, title \in BOOLEAN, http \in HttpOutcomes :
       FinishTitle(c, title, http)
  \/ \E c \in Callers : Return(c)
  \/ \E c \in Callers, op \in ApiOps, given \in BOOLEAN, http \in HttpOutcomes :
       ApiCall(c, op, given, http)
  \/ \E c \in Callers : RefreshSession(c)
  \/ RequestInterrupt
  \/ \E c \in Callers : TimeoutElapses(c)
  \/ \E e \in XhrIds : XhrProgress(e)
  \/ \E e \in XhrIds : XhrFinish(e)

\* One caller at a time.
Spec == Init /\ [][Next]_vars

\* The steps of two callers' exchanges, all within self.timeout of their
\* start: no calls of the conversation API between them.
NextConc ==
  \/ \E c \in Callers, via \in {"ask", "ask_stream"} : Enter(c, via)
  \/ \E c \in Callers : Send(c)
  \/ \E c \in Callers : ObserveInterrupt(c)
  \/ \E c \in Callers : PollEof(c)
  \/ \E c \in Callers : QueryStream(c)
  \/ \E c \in Callers : ReadSlot(c)
  \/ \E c \in Callers : Post(c)
  \/ \E c \in Callers : CleanupStream(c)
  \/ \E c \in Callers : CleanupEof(c)
  \/ \E c \in Callers, title \in BOOLEAN, http \in HttpOutcomes :
       FinishTitle(c, title, http)
  \/ \E c \in Callers : Return(c)
  \/ RequestInterrupt
  \/ \E e \in XhrIds : XhrProgress(e)
  \/ \E e \in XhrIds : XhrFinish(e)

\* Two callers.
SpecConc == InitConc /\ [][NextConc]_vars

\* refresh_session alone, called again and again.
InitRefresh ==
  /\ InitEngine
  /\ frame = [c \in Callers |-> AbsentFrame]
  /\ quota = NoQuota
  /\ InitOff

NextRefresh ==
  \/ \E timeout \in 1..MaxTimeout, standby \in BOOLEAN : RefreshGoto(timeout, standby)
  \/ \E arrived \in BOOLEAN, standby \in BOOLEAN : WaitForUrl(arrived, standby)
  \/ StandbyClears
  \/ CheckStandby
  \/ \E found \in {"token", "no_token", "none"} : ParseSession(found)
  \/ RestoreNavigation
  \/ RefreshDone

SpecRefresh == InitRefresh /\ [][NextRefresh]_vars

\* conversation_data_to_messages on every export of up to MaxNodes nodes and
\* on the two-turn exports with up to MaxLead nodes ahead of the user message.
InitLin ==
  /\ InitEngine
  /\ frame = [c \in Callers |-> AbsentFrame]
  /\ quota = NoQuota
  /\ page = "chat"
  /\ refresh = IdleRefresh
  /\ wire = IdleWire
  /\ \E export \in Exports(MaxNodes) \cup UNION {TwoTurnExports(k) : k \in 0..MaxLead} :
       lin = [pc |-> "given", export |-> export, result |-> [kind |-> "none"]]

NextLin == Convert

SpecLin == InitLin /\ [][NextLin]_vars

\* The handler of one request whose answer has up to MaxFrames events, on
\* every way the response is cut into readystatechange events.
InitFrames ==
  /\ InitEngine
  /\ frame = [c \in Callers |-> AbsentFrame]
  /\ quota = NoQuota
  /\ page = "chat"
  /\ refresh = IdleRefresh
  /\ lin = [pc |-> "idle", export |-> <<>>, result |-> [kind |-> "none"]]
  /\ \E n \in 1..MaxFrames :
       wire = [IdleWire EXCEPT !.bodies = Bodies(n), !.readyState = 1]

NextFrames ==
  \E k \in 0..MaxWire, readyState \in {3, 4} : OnBytes(k, readyState)

SpecFrames == InitFrames /\ [][NextFrames]_vars

\* ------------------------------------------------------------------ claims
\* The states of an exchange between issuing its outbound call and the end of
\* its cleanup.
InFlight(c) ==
  frame[c].pc \in {"loop", "query", "read", "post", "cleanup_stream", "cleanup_eof"}

\* An exchange that issued its outbound call has returned.
Returned(c) ==
  frame[c].pc = "done"
    /\ frame[c].exit \in {"DONE", "INTERRUPTED", "TIMEOUT", "TRANSPORT_ERROR"}

\* C1: ask_stream entered with a session that has no accessToken yields the
\* one explanatory chunk and ends in that step, and the step leaves
\* self.streaming, conversation_id, parent_message_id, the document and the
\* requests as they were; no request and no stream div ever belong to it.
C1_AuthPrecondition ==
  /\ [](\A c \in Callers :
          frame[c].exit = "AUTH" =>
            /\ frame[c].pc = "done"
            /\ frame[c].out = <<Unusable>>
            /\ xhr[frame[c].xid] = "unsent"
            /\ ~InDocument(frame[c].xid))
  /\ [][\A c \in Callers :
          (frame[c].pc = "idle" /\ frame'[c].xid # 0 /\ session' = "no_token") =>
            /\ frame'[c].pc = "done"
            /\ frame'[c].exit = "AUTH"
            /\ frame'[c].out = <<Unusable>>
            /\ UNCHANGED <<streaming, conversation_id, parent_message_id,
                           browserVars>>]_vars

\* C1 witness: an exchange ended on the missing token after an earlier one had
\* set the conversation ids.
C1_Witness ==
  \E c \in Callers :
    frame[c].exit = "AUTH" /\ frame[c].pc = "done" /\ conversation_id # 0

\* C2: the text deltas yielded so far concatenate to the last full text the
\* engine read from the staging slot, whatever polls and overwrites came
\* between.
C2_DiffBySuffix ==
  \A c \in Callers : ConcatText(frame[c].out) = frame[c].last_event_msg

\* C2 witness: an exchange ended on eof after yielding "a" and then "\n" for
\* the staged texts "a" and "a\n".
C2_Witness ==
  \E c \in Callers :
    /\ frame[c].pc = "done" /\ frame[c].exit = "DONE"
    /\ frame[c].out = <<TextChunk(<<"a">>), TextChunk(<<NL>>)>>

\* C3: a delta is yielded only when the staged text has grown since the
\* previous poll, so no yielded delta is empty.
C3_DeltaOnlyOnGrowth ==
  \A c \in Callers : \A i \in 1..Len(frame[c].out) :
    frame[c].out[i].kind = "text" => frame[c].out[i].text # <<>>

\* C4: an exchange that left its loop on an interrupt ends with the marker as
\* its last chunk, and once the marker is yielded the request of the exchange
\* has been aborted.
C4_AbortedBeforeMarker ==
  \A c \in Callers :
    /\ (frame[c].pc = "done" /\ frame[c].exit = "INTERRUPTED") =>
         (frame[c].out # <<>> /\ Last(frame[c].out) = Stopped)
    /\ (frame[c].out # <<>> /\ Last(frame[c].out) = Stopped) =>
         xhr[frame[c].xid] = "aborted"

\* C5: a poll that finds the timeout elapsed, no eof div, no interrupt request
\* and the staged text as an earlier poll read it leaves the loop.
C5_TimeoutLeavesLoop ==
  [][\A c \in Callers :
       ( /\ frame[c].pc = "read" /\ frame'[c].pc # "read"
         /\ frame[c].timed_out /\ ~frame[c].eof_datas /\ streaming
         /\ frame[c].out # <<>>
         /\ StagedText(slot[frame[c].conversation_datas]) = frame[c].last_event_msg )
       => frame'[c].pc = "post"]_vars

\* C6: at most one exchange is between issuing its outbound call and the end
\* of its cleanup.
C6_MutualExclusion ==
  Cardinality({c \in Callers : InFlight(c)}) <= 1

\* C7: when an exchange that issued its outbound call has returned, no stream
\* div, eof div or interrupt div created for it is in the document.
C7_MarkersCleanedUp ==
  \A c \in Callers :
    Returned(c) =>
      /\ ~InDocument(frame[c].xid)
      /\ \A i \in 1..Len(eofDivs) : eofDivs[i] # frame[c].xid
      /\ \A i \in 1..Len(intDivs) : intDivs[i] # frame[c].xid

\* C8: when the interrupt is observed, the deltas yielded (all of them ahead
\* of the marker) concatenate to the text staged at that moment.
C8_StagedTextPreserved ==
  \A c \in Callers :
    (frame[c].pc = "post" /\ frame[c].exit = "INTERRUPTED") =>
      ConcatText(frame[c].out) = frame[c].staged

\* C9: no exchange issues a title request once a title request of the
\* conversation has succeeded.
C9_TitleOnlyOnce ==
  [][\A c \in Callers :
       (frame[c].pc = "title" /\ frame'[c].title_req # "none") => ~titled]_vars

\* C10: every conversation API call returns a triple.
C10_ApiAlwaysStructured ==
  \A c \in Callers :
    frame[c].pc = "api_done" => frame[c].result \in {"triple_ok", "triple_fail"}

\* C11: whenever refresh_session returns, the page is on the chat landing
\* page, whether the session was parsed, no JSON was found or decoded, or the
\* wait for the session URL timed out.
C11_NavigationRestored ==
  refresh.pc = "returned" => page = "chat"

\* C11 witness: refresh_session returned after the session URL was reached
\* and a session with an accessToken parsed from it.
C11_Witness ==
  refresh.pc = "returned" /\ refresh.url = "arrived" /\ session = "token"

\* C17: the seconds refresh_session has slept waiting for the interstitial to
\* go never exceed its timeout.
C17_StandbyWaitBounded ==
  refresh.slept <= refresh.timeout

RECURSIVE Up(_, _, _)
\* The node reached from node i by following 'parent' n times, 0 when the
\* chain ends before.
Up(export, i, n) ==
  IF n = 0 THEN i
  ELSE IF i \notin DOMAIN export \/ ~export[i].has_parent THEN 0
  ELSE Up(export, export[i].parent, n - 1)

\* The export is a two-turn export with `lead` nodes between the rootless
\* node and the user message.
TwoTurn(export, lead) ==
  /\ Len(export) = lead + 3
  /\ \E u, a \in DOMAIN export :
       /\ export[u].message = "user" /\ export[a].message = "assistant"
       /\ export[a].has_parent /\ export[a].parent = u
       /\ \A i \in DOMAIN export \ {u, a} : export[i].message \in {"null", "system"}
       /\ LET r == Up(export, u, lead + 1)
          IN  /\ r \in DOMAIN export
              /\ parent_nodes(export) = {r}
              /\ export[r].has_children
              /\ export[r].children = <<Up(export, u, lead)>>

\* The messages of the user node and of the assistant node, in that order.
UserThenAssistant(export) ==
  LET u == CHOOSE i \in DOMAIN export : export[i].message = "user"
      a == CHOOSE i \in DOMAIN export : export[i].message = "assistant"
  IN  <<[id |-> u, role |-> "user"], [id |-> a, role |-> "assistant"]>>

\* C12: for an export with exactly one rootless node, each message returned
\* belongs to a node below the node of the message before it on the parent
\* chain, and no message returned has the role system.
C12_OrderAndFilter ==
  (lin.pc = "done" /\ Cardinality(parent_nodes(lin.export)) = 1
     /\ lin.result.kind = "returned") =>
    LET m == lin.result.messages
    IN  \A i \in 1..Len(m) :
          /\ m[i].role # "system"
          /\ i > 1 => \E n \in 1..Len(lin.export) :
                        Up(lin.export, m[i].id, n) = m[i - 1].id

\* C12 witness: a two-turn export with a system node ahead of the user message
\* was converted into two messages.
C12_Witness ==
  /\ lin.pc = "done" /\ TwoTurn(lin.export, 1)
  /\ \E i \in DOMAIN lin.export : lin.export[i].message = "system"
  /\ Len(lin.result.messages) = 2

\* C13: a two-turn export, the user message followed by the assistant's reply
\* under the single rootless node, is converted into exactly the user message
\* and then the assistant message.
C13_TwoTurnRoundTrip ==
  \A lead \in 0..MaxLead :
    (lin.pc = "done" /\ TwoTurn(lin.export, lead)) =>
      lin.result = [kind |-> "returned", messages |-> UserThenAssistant(lin.export)]

\* C13 amended: a two-turn export in which the rootless node's first child is
\* not the user message but a node ahead of it (without a message or with the
\* system message) is converted into exactly the user message and then the
\* assistant message.
C13_TwoTurnBelowLead ==
  \A lead \in 1..MaxLead :
    (lin.pc = "done" /\ TwoTurn(lin.export, lead)) =>
      lin.result = [kind |-> "returned", messages |-> UserThenAssistant(lin.export)]

\* C13 witness: a two-turn export with two nodes ahead of the user message was
\* converted.
C13_Witness ==
  lin.pc = "done" /\ TwoTurn(lin.export, 2) /\ Len(lin.result.messages) = 2

\* C14: an export with no rootless node or more than one is converted into
\* the empty list.
C14_DegenerateRoots ==
  (lin.pc = "done" /\ Cardinality(parent_nodes(lin.export)) # 1) =>
    lin.result = [kind |-> "returned", messages |-> <<>>]

\* C14 amended: an export with no rootless node or more than one, and with no
\* node whose 'parent' is None, is converted into the empty list.
C14_DegenerateRootsNoNullParent ==
  (lin.pc = "done" /\ Cardinality(parent_nodes(lin.export)) # 1
     /\ \A i \in mapping_dict(lin.export) : lin.export[i].parent # 0) =>
    lin.result = [kind |-> "returned", messages |-> <<>>]

\* C14 witness: an export with two rootless nodes, the first with a child
\* that is the parent of a user message, was converted into the empty list.
C14_Witness ==
  /\ lin.pc = "done" /\ Len(lin.export) = 3
  /\ parent_nodes(lin.export) = {1, 2}
  /\ lin.export[1].children = <<2>>
  /\ lin.export[3].parent = 2 /\ lin.export[3].message = "user"
  /\ lin.result = [kind |-> "returned", messages |-> <<>>]

\* C19: an export whose only rootless node has an empty children list is
\* converted into the empty list.
C19_ChildlessRoot ==
  (/\ lin.pc = "done"
   /\ \E r \in DOMAIN lin.export :
        /\ parent_nodes(lin.export) = {r}
        /\ lin.export[r].has_children /\ lin.export[r].children = <<>>) =>
    lin.result = [kind |-> "returned", messages |-> <<>>]

\* C15: ask_stream entered with no session, its one refresh leaving none,
\* yields exactly the explanatory message and ends without raising.
C15_AbsentSessionExplained ==
  \A c \in Callers :
    (frame[c].via \in {"ask", "ask_stream"} /\ frame[c].pc # "idle"
       /\ session = "none") =>
      (frame[c].pc = "done" /\ frame[c].out = <<Unusable>>)

\* The ids the engine holds.
Ids == <<parent_message_id, conversation_id>>

C20_ExchangesIsolated ==
  /\ [](\A c \in Callers :
          /\ (InFlight(c) /\ frame[c].exit = "DONE") => xhr[frame[c].xid] = "done"
          /\ (InLoop(c) /\ frame[c].eof_datas) => xhr[frame[c].xid] = "done")
  /\ [][\A e \in XhrIds :
          (xhr[e] # "aborted" /\ xhr'[e] = "aborted") =>
            (intDivs # <<>> /\ Head(intDivs) = e)]_vars

RECURSIVE Complete(_, _)
\* The frames of the stream that are complete in its first `received`
\* characters.
Complete(bodies, received) ==
  IF bodies = <<>> \/ Len(Wire(<<Head(bodies)>>)) > received THEN 0
  ELSE 1 + Complete(Tail(bodies), received - Len(Wire(<<Head(bodies)>>)))

\* The body of the newest complete frame of the accumulated response that is
\* not [DONE]: "" while there is none.
NewestComplete ==
  LET data == {i \in 1..Complete(wire.bodies, wire.received) :
                 wire.bodies[i] # DoneBody}
  IN  IF data = {} THEN <<>>
      ELSE wire.bodies[CHOOSE i \in data : \A j \in data : j <= i]

\* C18: after each readystatechange the stream div holds the newest complete
\* frame of the response received so far, however the response was cut; so
\* a frame cut in two is staged once its rest has arrived, and after the
\* request has finished the div holds the last data frame.
C18_NewestCompleteFrameStaged ==
  wire.readyState \in {3, 4} => wire.staged = NewestComplete

\* C22: whatever the parent pointers of the export, the conversion comes to
\* an end, and a list it returns has at most one message per node.
C22_LinearizerTerminates ==
  lin.pc = "done" =>
    /\ lin.result.kind # "diverges"
    /\ lin.result.kind = "returned" =>
         Len(lin.result.messages) <= Len(lin.export)

\* C21: an exchange that has left its loop on an eof marker, with no
\* interrupt requested, has yielded deltas that concatenate to the text its
\* request had staged when it finished.
C21_CompleteAnswerOnDone ==
  \A c \in Callers :
    (/\ frame[c].pc = "post" /\ frame[c].exit = "DONE" /\ streaming
     /\ xhr[frame[c].xid] = "done" /\ InDocument(frame[c].xid)) =>
      ConcatText(frame[c].out) = StagedText(slot[frame[c].xid])

====
